---- MODULE Spec2Model ----
(***************************************************************************)
(* Model of merge.py: the EPG aggregation pipeline.                        *)
(*   fetch_epg / gather  -> parse_epg (with epg_cache) -> merge fold in    *)
(*   main -> write_to_xml -> compress_to_gz.                               *)
(* Text that the code inspects character by character (the timestamps) is  *)
(* a sequence of one-character strings; other text is a TLA+ string.       *)
(***************************************************************************)
EXTENDS Integers, Sequences, FiniteSets, TLC

\* ------------------------------------------------------------------ bounds
MaxUrls == 3
MaxElems == 2
MaxCalls == 2
MaxFetchUrls == 17
MaxSeqCalls == 3
MaxLiveUrls == 2

\* ------------------------------------------------------- text and timestamps

\* Python's None, for values that are otherwise strings.
None == "<None>"
\* A child element that is not there (find() returned None).
NoElem == "<no element>"

Digit == <<"0", "1", "2", "3", "4", "5", "6", "7", "8", "9">>
IsDigit(c) == \E i \in 1..10 : Digit[i] = c
DigitVal(c) == (CHOOSE i \in 1..10 : Digit[i] = c) - 1
Whitespace == {" ", "\t", "\n"}

\* s[i], or "" past either end.
At(s, i) == IF i \in 1..Len(s) THEN s[i] ELSE ""

\* int() of the w characters of s from p (all digits).
RECURSIVE IntAt(_, _, _)
IntAt(s, p, w) ==
  IF w = 0 THEN 0 ELSE 10 * IntAt(s, p, w - 1) + DigitVal(s[p + w - 1])

\* The number the w characters of s from p spell; -1 unless all are digits.
NumAt(s, p, w) ==
  IF \A i \in p..(p + w - 1) : IsDigit(At(s, i)) THEN IntAt(s, p, w) ELSE -1

\* re.sub(r'\s+', '', s)
strip_ws(s) == SelectSeq(s, LAMBDA c : c \notin Whitespace)

\* Is v a value directive k (1 %Y, 2 %m, 3 %d, 4 %H, 5 %M, 6 %S) takes in w
\* characters? %Y is \d\d\d\d, %m is 1[0-2]|0[1-9]|[1-9], %d is
\* 3[0-1]|[1-2]\d|0[1-9]|[1-9], %H is 2[0-3]|[0-1]\d|\d, %M is [0-5]\d|\d,
\* %S is 6[0-1]|[0-5]\d|\d.
FieldTakes(k, w, v) ==
  /\ v >= 0
  /\ CASE k = 1 -> TRUE
       [] k = 2 -> IF w = 2 THEN v \in 1..12 ELSE v \in 1..9
       [] k = 3 -> IF w = 2 THEN v \in 1..31 ELSE v \in 1..9
       [] k = 4 -> IF w = 2 THEN v \in 0..23 ELSE TRUE
       [] k = 5 -> IF w = 2 THEN v \in 0..59 ELSE TRUE
       [] k = 6 -> IF w = 2 THEN v \in 0..61 ELSE TRUE

\* Greedy count of digits from p, at most n.
RECURSIVE DigitRun(_, _, _)
DigitRun(s, p, n) ==
  IF n = 0 \/ ~IsDigit(At(s, p)) THEN 0 ELSE 1 + DigitRun(s, p + 1, n - 1)

\* %z is [+-]\d\d:?[0-5]\d(:?[0-5]\d(\.\d{1,6})?)?|Z, matched greedily at p.
\* w is the width of the match (0: none), hours and minutes the offset read,
\* mixed whether only one of the two ':' was there.
ZNone == [w |-> 0, neg |-> FALSE, hours |-> 0, minutes |-> 0, mixed |-> FALSE]
ZFraction(s, p) ==
  IF At(s, p) = "." /\ IsDigit(At(s, p + 1)) THEN 1 + DigitRun(s, p + 1, 6) ELSE 0
\* q: where the minutes start, r: where seconds would start
ZSeconds(s, p, q, r) ==
  [w |-> IF NumAt(s, r, 2) \in 0..59 THEN (r + 2 + ZFraction(s, r + 2)) - p
         ELSE (q + 2) - p,
   neg |-> At(s, p) = "-",
   hours |-> NumAt(s, p + 1, 2),
   minutes |-> NumAt(s, q, 2),
   mixed |-> NumAt(s, r, 2) \in 0..59 /\ ((q = p + 4) # (r = q + 3))]
ZMinutes(s, p, q) ==
  IF NumAt(s, q, 2) \in 0..59
  THEN ZSeconds(s, p, q, IF At(s, q + 2) = ":" THEN q + 3 ELSE q + 2)
  ELSE ZNone
ZMatch(s, p) ==
  IF At(s, p) = "Z" THEN [ZNone EXCEPT !.w = 1]
  ELSE IF At(s, p) \in {"+", "-"} /\ NumAt(s, p + 1, 2) >= 0
  THEN ZMinutes(s, p, IF At(s, p + 3) = ":" THEN p + 4 ELSE p + 3)
  ELSE ZNone

\* The match of the regex of "%Y%m%d%H%M%S%z" from directive k at p: the first
\* one in the regex's backtracking order (for each directive its two-digit
\* form before its one-digit form), as the list of the widths taken; <<>> when
\* there is none.
PrependWidth(w, rest) == IF rest = <<>> THEN <<>> ELSE <<w>> \o rest
FirstMatch(a, b) == IF a # <<>> THEN a ELSE b
RECURSIVE RegexMatch(_, _, _)
RegexMatch(s, p, k) ==
  IF k = 7 THEN (IF ZMatch(s, p).w > 0 THEN <<ZMatch(s, p).w>> ELSE <<>>)
  ELSE IF k = 1
  THEN (IF FieldTakes(1, 4, NumAt(s, p, 4))
        THEN PrependWidth(4, RegexMatch(s, p + 4, 2)) ELSE <<>>)
  ELSE FirstMatch(
         IF FieldTakes(k, 2, NumAt(s, p, 2))
         THEN PrependWidth(2, RegexMatch(s, p + 2, k + 1)) ELSE <<>>,
         IF FieldTakes(k, 1, NumAt(s, p, 1))
         THEN PrependWidth(1, RegexMatch(s, p + 1, k + 1)) ELSE <<>>)

IsLeap(y) == (y % 4 = 0 /\ y % 100 # 0) \/ y % 400 = 0
DaysInMonth(y, m) ==
  IF m = 2 THEN (IF IsLeap(y) THEN 29 ELSE 28)
  ELSE IF m \in {4, 6, 9, 11} THEN 30 ELSE 31

RECURSIVE SumTo(_, _)
SumTo(ws, n) == IF n = 0 THEN 0 ELSE ws[n] + SumTo(ws, n - 1)

NoTime == [ok |-> FALSE, dt |-> <<0, 0, 0, 0, 0, 0>>, offmin |-> 0]

\* The datetime of the fields v = (year, month, day, hour, minute, second) and
\* the offset z, where the datetime and timezone constructors take them.
MakeDatetime(v, z) ==
  IF \/ v[1] < 1
     \/ v[3] > DaysInMonth(v[1], v[2])
     \/ v[6] > 59
     \/ z.hours > 23
     \/ z.mixed
  THEN NoTime
  ELSE [ok |-> TRUE, dt |-> v,
        offmin |-> (IF z.neg THEN -1 ELSE 1) * (60 * z.hours + z.minutes)]

\* What strptime makes of s once the regex has matched the widths ws.
FromMatch(s, ws) ==
  IF ws = <<>> \/ SumTo(ws, 7) # Len(s) THEN NoTime
  ELSE MakeDatetime([k \in 1..6 |-> NumAt(s, 1 + SumTo(ws, k - 1), ws[k])],
                    ZMatch(s, 1 + SumTo(ws, 6)))

\* An attribute that is there with value v, and one that is not (get() is None).
Attr(v) == [has |-> TRUE, val |-> v]
NoAttr == [has |-> FALSE, val |-> <<>>]

\* The timestamps of the inputs.
Day1 == <<"2", "0", "2", "4", "0", "1", "0", "1">>
T06 == <<"0", "6", "0", "0", "0", "0">>
T07 == <<"0", "7", "0", "0", "0", "0">>
T08 == <<"0", "8", "0", "0", "0", "0">>
Utc == <<"+", "0", "0", "0", "0">>
Ts0600 == Attr(Day1 \o T06 \o Utc)
Ts0700 == Attr(Day1 \o T07 \o Utc)
Ts0800 == Attr(Day1 \o T08 \o Utc)
\* 06:00 again, at other offsets and with the blank XMLTV puts before the offset
Ts0600India == Attr(Day1 \o T06 \o <<"-", "0", "5", "3", "0">>)
Ts0600China == Attr(Day1 \o T06 \o <<" ", "+", "0", "8", "0", "0">>)
\* not of the form YYYYMMDDHHMMSS+HHMM
TsDateOnly == Attr(Day1)
TsNoOffset == Attr(Day1 \o T07)
TsZulu == Attr(Day1 \o T06 \o <<"Z">>)
Ts13Digits == Attr(Day1 \o <<"0", "6", "0", "0", "0">> \o Utc)
TsEmpty == Attr(<<>>)
\* of that form, in a year before 1000
TsYear999 == Attr(<<"0", "9", "9", "9", "0", "1", "0", "1">> \o T06 \o Utc)

\* The timestamps of the inputs as strptime gets them, and what it makes of
\* each, computed once.
InputTimes ==
  {strip_ws(a.val) : a \in {Ts0600, Ts0700, Ts0800, Ts0600India, Ts0600China,
                            TsDateOnly, TsNoOffset, TsZulu, Ts13Digits, TsEmpty,
                            TsYear999}}
strptime_of == [s \in InputTimes |-> FromMatch(s, RegexMatch(s, 1, 1))]

\* datetime.strptime(s, "%Y%m%d%H%M%S%z"): ok is FALSE where it raises
\* ValueError (no match, unconverted data, ':' in one place only, a date,
\* second or offset out of range). dt is (year, month, day, hour, minute,
\* second) and offmin the parsed UTC offset in minutes.
strptime(s) ==
  IF s \in InputTimes THEN strptime_of[s] ELSE FromMatch(s, RegexMatch(s, 1, 1))

\* n in decimal, zero-padded to w digits.
RECURSIVE Pad(_, _)
Pad(n, w) == IF w = 0 THEN <<>> ELSE Pad(n \div 10, w - 1) \o <<Digit[(n % 10) + 1]>>

OutSuffix == <<" ", "+", "0", "8", "0", "0">>

\* The decimal digits of n, no leading zero.
RECURSIVE Decimal(_)
Decimal(n) ==
  IF n < 10 THEN <<Digit[n + 1]>> ELSE Decimal(n \div 10) \o <<Digit[(n % 10) + 1]>>

\* t.strftime("%Y%m%d%H%M%S +0800"): the parsed fields as they are, the offset
\* of t not used. %Y is the C library's: with glibc the year in decimal, not
\* padded to four digits ('999' for the year 0999); the other fields are two
\* digits each.
strftime(t) ==
  Decimal(t.dt[1]) \o Pad(t.dt[2], 2) \o Pad(t.dt[3], 2)
    \o Pad(t.dt[4], 2) \o Pad(t.dt[5], 2) \o Pad(t.dt[6], 2) \o OutSuffix

\* ------------------------------------------------------------ documents

\* A child of the document root. id is the 'id' attribute of a channel and the
\* 'channel' attribute of a programme (None: not there); text is the text of
\* the display-name or title child (NoElem: no such child, None: no text).
Chan(id, name) ==
  [tag |-> "channel", id |-> id, text |-> name,
   start |-> NoAttr, stop |-> NoAttr, desc |-> NoElem]
Prog(ch, start, stop, title, desc) ==
  [tag |-> "programme", id |-> ch, text |-> title,
   start |-> start, stop |-> stop, desc |-> desc]

\* A fetched text: None (no text), blank, not well-formed, or a document root
\* with its children in document order.
NoneDoc == [kind |-> "none", elems |-> <<>>]
BlankDoc == [kind |-> "blank", elems |-> <<>>]
MalformedDoc == [kind |-> "malformed", elems |-> <<>>]
Xml(els) == [kind |-> "xml", elems |-> els]

\* cc.convert: traditional to simplified script. The traditional spellings of
\* the model's vocabulary are the ones marked (trad).
cc_convert(s) ==
  CASE s = "ch1(trad)" -> "ch1"
    [] s = "A Name(trad)" -> "A Name"
    [] s = "Morning(trad)" -> "Morning"
    [] s = "Desc(trad)" -> "Desc"
    [] OTHER -> s

transform2_zh_hans(string) == IF string = None THEN None ELSE cc_convert(string)

\* hashlib.md5(...).hexdigest(): a digest of the text, equal for equal texts
\* and (collision resistance) different for the different texts of a run.
get_content_hash(epg_content) == <<"md5", epg_content>>

\* A test for None only (is not None), which lets the empty string through.
Truthy_not_none(s) == s # None

\* Python truth of a string-or-None.
Truthy(s) == s # None /\ s # ""

\* ------------------------------------------------------------ maps (dict)
EmptyMap == [k \in {} |-> 0]
Put(f, k, v) == [x \in DOMAIN f \cup {k} |-> IF x = k THEN v ELSE f[x]]
Get(f, k, dflt) == IF k \in DOMAIN f THEN f[k] ELSE dflt

\* An insertion at the front of the list.
extend_at_front(list, more) == more \o list

\* list.extend / list.append at the end of the list.
extend(list, more) == list \o more

\* ------------------------------------------------------------ Guide Parser

\* One turn of the channel loop, for child e, on the channels so far.
ChannelStep(channels, e) ==
  IF e.tag = "channel" /\ Truthy(transform2_zh_hans(e.id))
  THEN Put(channels, transform2_zh_hans(e.id),
           transform2_zh_hans(IF e.text # NoElem THEN e.text ELSE ""))
  ELSE channels

\* channels after the channel loop has gone over the first n children.
RECURSIVE ParseChannels(_, _)
ParseChannels(els, n) ==
  IF n = 0 THEN EmptyMap ELSE ChannelStep(ParseChannels(els, n - 1), els[n])

\* The attribute as it is in the document, not normalised.
ProgrammeKey_raw(e) == e.id

\* The key a programme element is filed under.
ProgrammeKey(e) == transform2_zh_hans(e.id)

\* Does the programme loop reach its append for this element?
Admitted(e) ==
  /\ Truthy(transform2_zh_hans(e.id))
  /\ e.start.has /\ e.start.val # <<>>
  /\ e.stop.has /\ e.stop.val # <<>>
  /\ strptime(strip_ws(e.start.val)).ok
  /\ strptime(strip_ws(e.stop.val)).ok
  /\ e.text # NoElem /\ e.text # None

\* The new programme element built for an admitted element, the n-th child of
\* its document (pos records n; it is not an attribute the code reads).
NewProgramme(e, n) ==
  [channel |-> transform2_zh_hans(e.id),
   start |-> strftime(strptime(strip_ws(e.start.val))),
   stop |-> strftime(strptime(strip_ws(e.stop.val))),
   title |-> transform2_zh_hans(e.text),
   desc |-> IF e.desc # NoElem /\ e.desc # None
            THEN transform2_zh_hans(e.desc) ELSE NoElem,
   pos |-> n]

\* One turn of the programme loop, for the n-th child e. progs maps a key to
\* the list of references to the new elements, which are new[1], new[2], ...
\* and get the heap addresses base+1, base+2, ...
ProgrammeStep(prev, e, n, base) ==
  IF e.tag = "programme" /\ Admitted(e)
  THEN [progs |-> Put(prev.progs, ProgrammeKey(e),
                      extend(Get(prev.progs, ProgrammeKey(e), <<>>),
                             <<base + Len(prev.new) + 1>>)),
        new |-> Append(prev.new, NewProgramme(e, n))]
  ELSE prev

\* The programme loop over the first n children.
RECURSIVE ParseProgrammes(_, _, _)
ParseProgrammes(els, n, base) ==
  IF n = 0 THEN [progs |-> EmptyMap, new |-> <<>>]
  ELSE ProgrammeStep(ParseProgrammes(els, n - 1, base), els[n], n, base)

\* ------------------------------------------------------------ inputs

\* The children a document of the parser's inputs is made of: a valid
\* programme, and programmes and channels that differ from a valid one in one
\* place.
ElemCatalog ==
  { Chan("ch1", "A Name"),
    Chan("ch1(trad)", NoElem),
    Chan("", "B Name"),
    Chan(None, "B Name"),
    Prog("ch1", Ts0600, Ts0700, "Morning", NoElem),
    Prog("ch1", Ts0600India, Ts0700, "Morning", NoElem),
    Prog("ch1(trad)", Ts0600China, Ts0700, "Morning(trad)", "Desc(trad)"),
    Prog("ch2", Ts0700, Ts0800, "Noon", None),
    Prog("", Ts0600, Ts0700, "Morning", NoElem),
    Prog(None, Ts0600, Ts0700, "Morning", NoElem),
    Prog("ch1", NoAttr, Ts0700, "Morning", NoElem),
    Prog("ch1", Ts0600, TsEmpty, "Morning", NoElem),
    Prog("ch1", TsDateOnly, Ts0700, "Morning", NoElem),
    Prog("ch1", Ts0600, TsNoOffset, "Morning", NoElem),
    Prog("ch1", TsZulu, Ts0700, "Morning", NoElem),
    Prog("ch1", Ts13Digits, Ts0700, "Morning", NoElem),
    Prog("ch1", TsYear999, Ts0700, "Morning", NoElem),
    Prog("ch1", Ts0600, Ts0700, NoElem, NoElem),
    Prog("ch1", Ts0600, Ts0700, None, "Desc") }

\* All sequences over S of length at most n.
RECURSIVE SeqsUpTo(_, _)
SeqsUpTo(S, n) ==
  IF n = 0 THEN {<<>>}
  ELSE LET shorter == SeqsUpTo(S, n - 1)
       IN shorter \cup {Append(q, e) : q \in shorter, e \in S}

\* The texts parse_epg is called with on its own.
ParserDocs ==
  {NoneDoc, BlankDoc, MalformedDoc} \cup {Xml(els) : els \in SeqsUpTo(ElemCatalog, MaxElems)}

\* The texts the sources of a run serve.
DocA ==
  Xml(<<Chan("ch1", "A Name"), Prog("ch1", Ts0600, Ts0700, "Morning", NoElem)>>)
DocB ==
  Xml(<<Chan("ch1", "B Name"), Chan("ch2", "Two"),
        Prog("ch1", Ts0700, Ts0800, "Noon", "Desc"),
        Prog("ch2", Ts0600India, Ts0700, "Early", NoElem),
        Prog("ch1", Ts0800, Ts0800, "Night", NoElem)>>)
DocTrad ==
  Xml(<<Prog("ch1(trad)", Ts0600China, Ts0700, "Morning(trad)", "Desc(trad)"),
        Chan("ch1(trad)", "A Name(trad)"),
        Prog("ch3", Ts0600, TsDateOnly, "Dropped", NoElem)>>)
DocNoChannels ==
  Xml(<<Prog("ch1", Ts0700, Ts0800, "Late", NoElem)>>)
DocSloppy ==
  Xml(<<Chan(None, "Nobody"), Chan("", "Nobody"), Chan("ch2", NoElem),
        Prog("", Ts0600, Ts0700, "Morning", NoElem),
        Prog("ch2", TsDateOnly, Ts0700, "Morning", NoElem),
        Prog("ch2", Ts0600, Ts0700, "Morning", NoElem)>>)
SourceDocs ==
  {DocA, DocB, DocTrad, DocNoChannels, DocSloppy, BlankDoc, MalformedDoc}

\* What one request can end in: the text of a document, or a failure, one kind
\* per handler of fetch_epg: an aiohttp.ClientError (from the connection, or
\* the one raise_for_status() raises for a non-success status), an
\* asyncio.TimeoutError, or any other exception (such as a UnicodeDecodeError
\* from response.text).
FailureKinds == {"client_error", "timeout", "other"}
Outcomes ==
  {[kind |-> "ok", doc |-> d] : d \in SourceDocs}
    \cup {[kind |-> f, doc |-> NoneDoc] : f \in FailureKinds}
Pending == [kind |-> "pending", doc |-> NoneDoc]

AllUrls == <<"url1", "url2", "url3", "url4", "url5", "url6">>

\* ------------------------------------------------------------ state

VARIABLES
  urls,               \* main: the locators get_urls() returned
  task,               \* the fetch_epg coroutines: [st, outcome, ret] per locator
  res,                \* gather: (index, result) pairs in order of completion
  epg_contents,       \* main: what gather returned
  pc,                 \* main: where it is
  idx,                \* main: the source the parse loop is at (1-based)
  epg_cache,          \* the module's cache: content hash -> result object
  objs,               \* heap of (channels, programmes) result objects
  elems,              \* heap of programme elements built by parse_epg
  calls,              \* log of the parse_epg calls made so far
  all_channels,       \* main: id -> display name
  all_programmes,     \* main: id -> list of references into elems
  origin,             \* for each entry of all_programmes, the source it is from
  successful_parses,  \* main
  output,             \* which output files exist
  overtaken,          \* history: did a request finish before one sent for an
                      \* earlier locator, in the gather that returned?
  pdoc                \* the text parse_epg is called with on its own

vars ==
  <<urls, task, res, epg_contents, pc, idx, epg_cache, objs, elems, calls,
    all_channels, all_programmes, origin, successful_parses, output,
    overtaken, pdoc>>

fetchVars == <<urls, task, res, epg_contents>>
parseVars == <<epg_cache, objs, elems, calls>>
mergeVars == <<all_channels, all_programmes, origin, successful_parses>>

EmptyResult == [channels |-> EmptyMap, programmes |-> EmptyMap]

\* ------------------------------------------------------------ Fetcher

\* fetch_epg without its last handler (except Exception).
fetch_epg_without_catch_all(outcome) ==
  CASE outcome.kind = "ok" -> [raised |-> FALSE, value |-> outcome.doc]
    [] outcome.kind = "client_error" -> [raised |-> FALSE, value |-> NoneDoc]
    [] outcome.kind = "timeout" -> [raised |-> FALSE, value |-> NoneDoc]
    [] OTHER -> [raised |-> TRUE, value |-> NoneDoc]

\* fetch_epg: what the coroutine ends in for what its request ends in. raised:
\* the exception leaves the coroutine; otherwise value is what it returns
\* (NoneDoc for None).
fetch_epg(outcome) ==
  CASE outcome.kind = "ok" -> [raised |-> FALSE, value |-> outcome.doc]
    [] outcome.kind = "client_error" -> [raised |-> FALSE, value |-> NoneDoc]
    [] outcome.kind = "timeout" -> [raised |-> FALSE, value |-> NoneDoc]
    [] OTHER -> [raised |-> FALSE, value |-> NoneDoc]

\* gather without its sort: the results in the order they completed in.
gather_in_completion_order(pairs) == [j \in 1..Len(pairs) |-> pairs[j][2]]

\* tqdm_asyncio.gather: the results taken as they complete, then sorted by the
\* index of their awaitable.
gather(pairs) ==
  [j \in 1..Len(pairs) |->
     LET p == CHOOSE q \in 1..Len(pairs) :
                Cardinality({o \in 1..Len(pairs) : pairs[o][1] < pairs[q][1]}) = j - 1
     IN pairs[p][2]]

\* ------------------------------------------------------------ parse_epg

\* What a call returns: ret is the object returned (a reference into objs),
\* then the heaps and the cache after the call, and whether it ran the XML
\* parser.
Returns(ret, newobjs, newelems, newcache, ran) ==
  [ret |-> ret, objs |-> newobjs, elems |-> newelems, cache |-> newcache,
   executed |-> ran, raised |-> FALSE]

\* A call that an exception leaves, out of ET.fromstring: nothing is returned
\* (ret 0) and nothing has been built or stored.
Raises ==
  [ret |-> 0, objs |-> objs, elems |-> elems, cache |-> epg_cache,
   executed |-> TRUE, raised |-> TRUE]

\* ParseRoot without the store into epg_cache.
ParseRoot_without_store(content_hash, use_cache, channels, pp) ==
  Returns(Len(objs) + 1,
          Append(objs, [channels |-> channels, programmes |-> pp.progs]),
          elems \o pp.new, epg_cache, TRUE)

\* ParseRoot with the store into epg_cache not under 'if use_cache:'.
ParseRoot_storing_always(content_hash, use_cache, channels, pp) ==
  Returns(Len(objs) + 1,
          Append(objs, [channels |-> channels, programmes |-> pp.progs]),
          elems \o pp.new,
          Put(epg_cache, content_hash, Len(objs) + 1),
          TRUE)

\* parse_epg from the channel loop on, for a well-formed document.
ParseRoot(content_hash, use_cache, channels, pp) ==
  Returns(Len(objs) + 1,
          Append(objs, [channels |-> channels, programmes |-> pp.progs]),
          elems \o pp.new,
          IF use_cache THEN Put(epg_cache, content_hash, Len(objs) + 1) ELSE epg_cache,
          TRUE)

\* parse_epg without its handler of ET.ParseError.
parse_epg_without_except(epg_content, use_cache) ==
  IF epg_content.kind \in {"none", "blank"}
  THEN Returns(Len(objs) + 1, Append(objs, EmptyResult), elems, epg_cache, FALSE)
  ELSE IF use_cache /\ get_content_hash(epg_content) \in DOMAIN epg_cache
  THEN Returns(epg_cache[get_content_hash(epg_content)], objs, elems, epg_cache, FALSE)
  ELSE IF epg_content.kind = "malformed"
  THEN Raises
  ELSE ParseRoot(get_content_hash(epg_content), use_cache,
                 ParseChannels(epg_content.elems, Len(epg_content.elems)),
                 ParseProgrammes(epg_content.elems, Len(epg_content.elems), Len(elems)))

\* parse_epg that stores the empty result of a text that failed to parse.
parse_epg_caching_failures(epg_content, use_cache) ==
  IF epg_content.kind \in {"none", "blank"}
  THEN Returns(Len(objs) + 1, Append(objs, EmptyResult), elems, epg_cache, FALSE)
  ELSE IF use_cache /\ get_content_hash(epg_content) \in DOMAIN epg_cache
  THEN Returns(epg_cache[get_content_hash(epg_content)], objs, elems, epg_cache, FALSE)
  ELSE IF epg_content.kind = "malformed"
  THEN Returns(Len(objs) + 1, Append(objs, EmptyResult), elems,
               IF use_cache
               THEN Put(epg_cache, get_content_hash(epg_content), Len(objs) + 1)
               ELSE epg_cache,
               TRUE)
  ELSE ParseRoot(get_content_hash(epg_content), use_cache,
                 ParseChannels(epg_content.elems, Len(epg_content.elems)),
                 ParseProgrammes(epg_content.elems, Len(epg_content.elems), Len(elems)))

\* parse_epg(epg_content, use_cache) in the current state.
parse_epg(epg_content, use_cache) ==
  IF epg_content.kind \in {"none", "blank"}
  THEN Returns(Len(objs) + 1, Append(objs, EmptyResult), elems, epg_cache, FALSE)
  ELSE IF use_cache /\ get_content_hash(epg_content) \in DOMAIN epg_cache
  THEN Returns(epg_cache[get_content_hash(epg_content)], objs, elems, epg_cache, FALSE)
  ELSE IF epg_content.kind = "malformed"
  THEN Returns(Len(objs) + 1, Append(objs, EmptyResult), elems, epg_cache, TRUE)
  ELSE ParseRoot(get_content_hash(epg_content), use_cache,
                 ParseChannels(epg_content.elems, Len(epg_content.elems)),
                 ParseProgrammes(epg_content.elems, Len(epg_content.elems), Len(elems)))

\* ------------------------------------------------------------ Merge Engine

\* A merge that keeps the name an id already has (dict.setdefault).
MergeChannels_first_write_wins(all, channels) ==
  [k \in DOMAIN all \cup DOMAIN channels |->
     IF k \in DOMAIN all THEN all[k] ELSE channels[k]]

\* all_channels.update(channels)
MergeChannels(all, channels) ==
  [k \in DOMAIN all \cup DOMAIN channels |->
     IF k \in DOMAIN channels THEN channels[k] ELSE all[k]]

\* for channel_id, prog_list in programmes.items():
\*     all_programmes[channel_id].extend(prog_list)
MergeProgrammes(all, programmes) ==
  [k \in DOMAIN all \cup DOMAIN programmes |->
     extend(Get(all, k, <<>>), Get(programmes, k, <<>>))]

\* Does the fold take this result in (if channels:)?
TakenIn(result) == DOMAIN result.channels # {}

\* A loop that sets 'channel' to the display name of the channel.
SetChannels_to_name(heap, programmes) ==
  [r \in 1..Len(heap) |->
     IF \E k \in DOMAIN programmes : \E j \in 1..Len(programmes[k]) : programmes[k][j] = r
     THEN [heap[r] EXCEPT !.channel =
             Get(all_channels,
                 CHOOSE k \in DOMAIN programmes :
                   \E j \in 1..Len(programmes[k]) : programmes[k][j] = r, None)]
     ELSE heap[r]]

\* write_to_xml's loop over programmes.items(): prog.set('channel', channel_id)
SetChannels(heap, programmes) ==
  [r \in 1..Len(heap) |->
     IF \E k \in DOMAIN programmes : \E j \in 1..Len(programmes[k]) : programmes[k][j] = r
     THEN [heap[r] EXCEPT !.channel =
             CHOOSE k \in DOMAIN programmes :
               \E j \in 1..Len(programmes[k]) : programmes[k][j] = r]
     ELSE heap[r]]

\* ------------------------------------------------------------ main

Init ==
  /\ urls \in {SubSeq(AllUrls, 1, n) : n \in 0..MaxUrls}
  /\ task = <<>>
  /\ res = <<>>
  /\ epg_contents = <<>>
  /\ pc = "start"
  /\ idx = 0
  /\ epg_cache = EmptyMap
  /\ objs = <<>>
  /\ elems = <<>>
  /\ calls = <<>>
  /\ all_channels = EmptyMap
  /\ all_programmes = EmptyMap
  /\ origin = EmptyMap
  /\ successful_parses = 0
  /\ output = [xml |-> FALSE, gz |-> FALSE]
  /\ overtaken = FALSE
  /\ pdoc = NoneDoc

\* main up to the await: no locators, or one coroutine per locator.
Start ==
  /\ pc = "start"
  /\ IF urls = <<>>
     THEN pc' = "exit_no_urls" /\ task' = task
     ELSE /\ pc' = "fetching"
          /\ task' = [i \in 1..Len(urls) |->
                        [st |-> "created", outcome |-> Pending, ret |-> NoneDoc]]
  /\ UNCHANGED <<urls, res, epg_contents, idx, parseVars, mergeVars, output, overtaken, pdoc>>

\* TCPConnector(limit=16): the connections one connector has open at a time.
ConnectorLimit == 16

\* The requests in flight through the connector of coroutine i. Every call of
\* fetch_epg makes a connector and a session of its own, so its connector
\* carries no request but its own.
InConnector(i) == {j \in {i} : task[j].st = "inflight"}

\* fetch_epg up to its await: the request of locator i is sent, its connector
\* having a connection free.
Send(i) ==
  /\ pc = "fetching"
  /\ task[i].st = "created"
  /\ Cardinality(InConnector(i)) < ConnectorLimit
  /\ task' = [task EXCEPT ![i].st = "inflight"]
  /\ UNCHANGED <<urls, res, epg_contents, pc, idx, parseVars, mergeVars, output, overtaken, pdoc>>

\* A fetch_epg that sends its request again when it has failed.
Complete_with_retry(i, o) ==
  /\ pc = "fetching"
  /\ task[i].st = "inflight"
  /\ IF o.kind = "ok"
     THEN /\ task' = [task EXCEPT ![i] = [st |-> "done", outcome |-> o, ret |-> o.doc]]
          /\ res' = Append(res, <<i, o.doc>>)
     ELSE /\ task' = [task EXCEPT ![i].st = "created"]
          /\ res' = res
  /\ UNCHANGED <<urls, epg_contents, pc, idx, parseVars, mergeVars, output, overtaken, pdoc>>

\* The request of locator i ends in outcome o and fetch_epg finishes. An
\* exception that left fetch_epg would leave gather and land in main's handler.
Complete(i, o) ==
  /\ pc = "fetching"
  /\ task[i].st = "inflight"
  /\ \E r \in {fetch_epg(o)} :
       IF r.raised
       THEN /\ pc' = "failed"
            /\ task' = [task EXCEPT ![i] = [st |-> "raised", outcome |-> o, ret |-> NoneDoc]]
            /\ res' = res
       ELSE /\ pc' = pc
            /\ task' = [task EXCEPT ![i] = [st |-> "done", outcome |-> o, ret |-> r.value]]
            /\ res' = Append(res, <<i, r.value>>)
  /\ UNCHANGED <<urls, epg_contents, idx, parseVars, mergeVars, output, overtaken, pdoc>>

\* A gather that returns what has completed so far, not waiting for the rest.
GatherReturns_without_waiting ==
  /\ pc = "fetching"
  /\ epg_contents' = gather(res)
  /\ res' = <<>>
  /\ pc' = "parsing"
  /\ idx' = 1
  /\ overtaken' = (\E a, b \in 1..Len(res) : a < b /\ res[a][1] > res[b][1])
  /\ UNCHANGED <<urls, task, parseVars, mergeVars, output, pdoc>>

\* Every coroutine has finished: gather returns.
GatherReturns ==
  /\ pc = "fetching"
  /\ \A i \in 1..Len(task) : task[i].st = "done"
  /\ epg_contents' = gather(res)
  /\ res' = <<>>
  /\ pc' = "parsing"
  /\ idx' = 1
  /\ overtaken' = (\E a, b \in 1..Len(res) : a < b /\ res[a][1] > res[b][1])
  /\ UNCHANGED <<urls, task, parseVars, mergeVars, output, pdoc>>

\* The body of the parse loop for a text that is there: r is what parse_epg
\* returned and result the (channels, programmes) it handed over. An exception
\* out of parse_epg lands in the loop's handler, which goes on to the next
\* source.
TakeIn(r, result) ==
  /\ objs' = r.objs
  /\ elems' = r.elems
  /\ epg_cache' = r.cache
  /\ calls' = Append(calls, [src |-> idx, content |-> epg_contents[idx],
                             use_cache |-> TRUE, ret |-> r.ret,
                             executed |-> r.executed, raised |-> r.raised])
  /\ IF ~r.raised /\ TakenIn(result)
     THEN /\ all_channels' = MergeChannels(all_channels, result.channels)
          /\ all_programmes' = MergeProgrammes(all_programmes, result.programmes)
          /\ origin' = MergeProgrammes(origin,
                         [k \in DOMAIN result.programmes |->
                            [j \in 1..Len(result.programmes[k]) |-> idx]])
          /\ successful_parses' = successful_parses + 1
     ELSE UNCHANGED mergeVars

\* A parse loop that stops at the first source without a text (break where
\* the code has continue).
ParseAndMerge_stopping_at_none ==
  /\ pc = "parsing"
  /\ idx <= Len(epg_contents)
  /\ IF epg_contents[idx].kind = "none"
     THEN idx' = Len(epg_contents) + 1 /\ UNCHANGED <<parseVars, mergeVars>>
     ELSE /\ idx' = idx + 1
          /\ \E r \in {parse_epg(epg_contents[idx], TRUE)} :
                TakeIn(r, IF r.raised THEN EmptyResult ELSE r.objs[r.ret])
  /\ UNCHANGED <<fetchVars, pc, output, overtaken, pdoc>>

\* One turn of the parse loop, for source idx.
ParseAndMerge ==
  /\ pc = "parsing"
  /\ idx <= Len(epg_contents)
  /\ idx' = idx + 1
  /\ IF epg_contents[idx].kind = "none"
     THEN UNCHANGED <<parseVars, mergeVars>>
     ELSE \E r \in {parse_epg(epg_contents[idx], TRUE)} :
            TakeIn(r, IF r.raised THEN EmptyResult ELSE r.objs[r.ret])
  /\ UNCHANGED <<fetchVars, pc, output, overtaken, pdoc>>

\* main without its 'if not all_channels: return'.
FoldEnds_without_empty_exit ==
  /\ pc = "parsing"
  /\ idx > Len(epg_contents)
  /\ pc' = "writing"
  /\ UNCHANGED <<fetchVars, idx, parseVars, mergeVars, output, overtaken, pdoc>>

\* After the loop: nothing to write, or on to the output.
FoldEnds ==
  /\ pc = "parsing"
  /\ idx > Len(epg_contents)
  /\ pc' = IF DOMAIN all_channels = {} THEN "exit_empty" ELSE "writing"
  /\ UNCHANGED <<fetchVars, idx, parseVars, mergeVars, output, overtaken, pdoc>>

\* write_to_xml: it can fail making the directory (before its loops) or
\* opening the file (after them); its exception lands in main's handler.
WriteToXml(how) ==
  /\ pc = "writing"
  /\ elems' = IF how = "makedirs fails" THEN elems ELSE SetChannels(elems, all_programmes)
  /\ output' = [output EXCEPT !.xml = (how = "ok")]
  /\ pc' = IF how = "ok" THEN "compressing" ELSE "failed"
  /\ UNCHANGED <<fetchVars, idx, epg_cache, objs, calls, mergeVars, overtaken, pdoc>>

\* compress_to_gz catches its own exception; main goes on to its last line.
CompressToGz(ok) ==
  /\ pc = "compressing"
  /\ output' = [output EXCEPT !.gz = ok]
  /\ pc' = "done"
  /\ UNCHANGED <<fetchVars, idx, parseVars, mergeVars, overtaken, pdoc>>

Next ==
  \/ Start
  \/ \E i \in 1..Len(task) : Send(i)
  \/ \E i \in 1..Len(task), o \in Outcomes : Complete(i, o)
  \/ GatherReturns
  \/ ParseAndMerge
  \/ FoldEnds
  \/ \E how \in {"ok", "makedirs fails", "open fails"} : WriteToXml(how)
  \/ \E ok \in BOOLEAN : CompressToGz(ok)

Spec == Init /\ [][Next]_vars

\* ------------------------------------------------- the run, with progress

\* A run over up to MaxLiveUrls locators.
InitLive ==
  /\ urls \in {SubSeq(AllUrls, 1, n) : n \in 0..MaxLiveUrls}
  /\ task = <<>>
  /\ res = <<>>
  /\ epg_contents = <<>>
  /\ pc = "start"
  /\ idx = 0
  /\ epg_cache = EmptyMap
  /\ objs = <<>>
  /\ elems = <<>>
  /\ calls = <<>>
  /\ all_channels = EmptyMap
  /\ all_programmes = EmptyMap
  /\ origin = EmptyMap
  /\ successful_parses = 0
  /\ output = [xml |-> FALSE, gz |-> FALSE]
  /\ overtaken = FALSE
  /\ pdoc = NoneDoc

\* The parse loop going on to its next source. Of the steps of Next only
\* ParseAndMerge is one, so fairness for it is fairness for ParseAndMerge.
ParseLoopTurn ==
  /\ pc = "parsing"
  /\ idx <= Len(epg_contents)
  /\ idx' = idx + 1

\* The run does not stop while it has a step to take: the event loop runs a
\* coroutine that is ready (Start, Send, GatherReturns), a request that is in
\* flight ends, at the latest when its timeout of 30 fires (Complete), and
\* main's straight-line code goes on (the parse loop and what follows it).
LiveSpec ==
  /\ InitLive
  /\ [][Next]_vars
  /\ WF_vars(Start)
  /\ WF_vars(\E i \in 1..Len(task) : Send(i))
  /\ WF_vars(\E i \in 1..Len(task), o \in Outcomes : Complete(i, o))
  /\ WF_vars(GatherReturns)
  /\ WF_idx(ParseLoopTurn)
  /\ WF_vars(FoldEnds)
  /\ WF_vars(\E how \in {"ok", "makedirs fails", "open fails"} : WriteToXml(how))
  /\ WF_vars(\E ok \in BOOLEAN : CompressToGz(ok))

\* ------------------------------------------------- the fetch stage on its own

\* A run over MaxFetchUrls locators, up to the return of gather. The coroutines
\* send their requests in the order the event loop starts them in, the order
\* they were made in; the requests end in any order, and here only that a
\* request has ended is kept, not what it ended in.
InitFetch ==
  /\ urls = [i \in 1..MaxFetchUrls |-> <<"url", i>>]
  /\ task = <<>>
  /\ res = <<>>
  /\ epg_contents = <<>>
  /\ pc = "start"
  /\ idx = 0
  /\ epg_cache = EmptyMap
  /\ objs = <<>>
  /\ elems = <<>>
  /\ calls = <<>>
  /\ all_channels = EmptyMap
  /\ all_programmes = EmptyMap
  /\ origin = EmptyMap
  /\ successful_parses = 0
  /\ output = [xml |-> FALSE, gz |-> FALSE]
  /\ overtaken = FALSE
  /\ pdoc = NoneDoc

SendInTurn(i) ==
  /\ \A j \in 1..(i - 1) : task[j].st # "created"
  /\ Send(i)

Respond(i) ==
  /\ pc = "fetching"
  /\ task[i].st = "inflight"
  /\ task' = [task EXCEPT ![i].st = "done"]
  /\ UNCHANGED <<urls, res, epg_contents, pc, idx, parseVars, mergeVars, output, overtaken, pdoc>>

NextFetch ==
  \/ Start
  \/ \E i \in 1..Len(task) : SendInTurn(i)
  \/ \E i \in 1..Len(task) : Respond(i)

SpecFetch == InitFetch /\ [][NextFetch]_vars

\* ------------------------------------------------- parse_epg on its own

InitParser ==
  /\ pdoc \in ParserDocs
  /\ urls = <<>>
  /\ task = <<>>
  /\ res = <<>>
  /\ epg_contents = <<>>
  /\ pc = "parser"
  /\ idx = 0
  /\ epg_cache = EmptyMap
  /\ objs = <<>>
  /\ elems = <<>>
  /\ calls = <<>>
  /\ all_channels = EmptyMap
  /\ all_programmes = EmptyMap
  /\ origin = EmptyMap
  /\ successful_parses = 0
  /\ output = [xml |-> FALSE, gz |-> FALSE]
  /\ overtaken = FALSE

\* A call parse_epg(pdoc, use_cache).
Call(use_cache) ==
  /\ pc = "parser"
  /\ Len(calls) < MaxCalls
  /\ \E r \in {parse_epg(pdoc, use_cache)} :
        /\ objs' = r.objs
        /\ elems' = r.elems
        /\ epg_cache' = r.cache
        /\ calls' = Append(calls, [src |-> 0, content |-> pdoc,
                                   use_cache |-> use_cache, ret |-> r.ret,
                                   executed |-> r.executed, raised |-> r.raised])
  /\ UNCHANGED <<fetchVars, pc, idx, mergeVars, output, overtaken, pdoc>>

NextParser == \E use_cache \in BOOLEAN : Call(use_cache)

SpecParser == InitParser /\ [][NextParser]_vars

\* ------------------------------------- a sequence of parse_epg calls

\* Up to MaxSeqCalls calls of parse_epg in one process, each on any of the
\* texts the sources serve, with the cache or without it.
InitCalls ==
  /\ pdoc = NoneDoc
  /\ urls = <<>>
  /\ task = <<>>
  /\ res = <<>>
  /\ epg_contents = <<>>
  /\ pc = "calls"
  /\ idx = 0
  /\ epg_cache = EmptyMap
  /\ objs = <<>>
  /\ elems = <<>>
  /\ calls = <<>>
  /\ all_channels = EmptyMap
  /\ all_programmes = EmptyMap
  /\ origin = EmptyMap
  /\ successful_parses = 0
  /\ output = [xml |-> FALSE, gz |-> FALSE]
  /\ overtaken = FALSE

\* A call parse_epg(d, use_cache).
CallOn(d, use_cache) ==
  /\ pc = "calls"
  /\ Len(calls) < MaxSeqCalls
  /\ pdoc' = d
  /\ \E r \in {parse_epg(d, use_cache)} :
        /\ objs' = r.objs
        /\ elems' = r.elems
        /\ epg_cache' = r.cache
        /\ calls' = Append(calls, [src |-> 0, content |-> d,
                                   use_cache |-> use_cache, ret |-> r.ret,
                                   executed |-> r.executed, raised |-> r.raised])
  /\ UNCHANGED <<fetchVars, pc, idx, mergeVars, output, overtaken>>

NextCalls == \E d \in SourceDocs \cup {NoneDoc}, use_cache \in BOOLEAN : CallOn(d, use_cache)

SpecCalls == InitCalls /\ [][NextCalls]_vars

\* ------------------------------------------------------------ claims

\* What the request of locator i handed to fetch_epg's caller: the text it
\* got, or None for any failure.
Fetched(i) ==
  IF task[i].outcome.kind = "ok" THEN task[i].outcome.doc ELSE NoneDoc

AfterGather == pc \in {"parsing", "exit_empty", "writing", "compressing", "done", "failed"}
AfterFold == pc \in {"exit_empty", "writing", "compressing", "done", "failed"}

\* C1: once gather has returned, epg_contents is as long as the locator list
\* and its entry i is the text fetched for locator i, or None if that request
\* failed, whatever the outcomes and the order the requests completed in.
C1_FetchOrderPreserved ==
  AfterGather =>
    /\ Len(epg_contents) = Len(urls)
    /\ \A i \in 1..Len(urls) : epg_contents[i] = Fetched(i)

\* C1 witness: gather has returned for three locators, a later request having
\* completed before an earlier one, with a failure before a success.
C1_Witness ==
  /\ pc = "parsing"
  /\ overtaken
  /\ Len(urls) = 3
  /\ task[1].outcome.kind = "timeout"
  /\ task[2].outcome.kind = "ok"
  /\ task[3].outcome.kind = "client_error"
  /\ epg_contents[2] = DocA

\* C2: a failure of one request stays in its fetch_epg: that coroutine ends
\* normally with None, no coroutine ends in an exception, a finished
\* coroutine's result is the one its own request decides, and main's
\* exception handler is not reached from the fetch stage.
C2_FetchFailureIsolated ==
  /\ \A i \in 1..Len(task) :
       /\ task[i].st \in {"created", "inflight", "done"}
       /\ task[i].st = "done" => task[i].ret = Fetched(i)
  /\ \A a \in 1..Len(res) : res[a][2] = Fetched(res[a][1])
  /\ pc = "failed" => Len(epg_contents) = Len(urls) /\ urls # <<>>

\* C2 witness: a request failed with an exception of no expected class, and
\* requests that completed after it, and one still in flight, are unharmed.
C2_Witness ==
  /\ pc = "fetching"
  /\ Len(res) = 2
  /\ task[res[1][1]].outcome.kind = "other"
  /\ res[1][2] = NoneDoc
  /\ res[2][2] = DocB
  /\ \E i \in 1..Len(task) : task[i].st = "inflight"

\* The calls of parse_epg, among the first n, that ran the XML parser on text d.
ParserRuns(d) ==
  Cardinality({c \in 1..Len(calls) : calls[c].content = d /\ calls[c].executed})

SourceChannels(c) == objs[calls[c].ret].channels
SourceProgrammes(c) == objs[calls[c].ret].programmes

\* The last call whose channel map has id k.
LastWith(k) ==
  CHOOSE c \in 1..Len(calls) :
    /\ k \in DOMAIN SourceChannels(c)
    /\ \A d \in (c + 1)..Len(calls) : k \notin DOMAIN SourceChannels(d)

\* C4: all_channels has exactly the ids of the channel maps folded so far, each
\* with the display name of the last source whose channel map has it.
C4_LastWriteWins ==
  /\ \A c \in 1..Len(calls) : \A k \in DOMAIN SourceChannels(c) :
       /\ k \in DOMAIN all_channels
       /\ all_channels[k] = SourceChannels(LastWith(k))[k]
  /\ \A k \in DOMAIN all_channels :
       \E c \in 1..Len(calls) : k \in DOMAIN SourceChannels(c)

\* C4 witness: the fold is over; ch1 was named by three sources in turn and
\* has the name the last of them gave it.
C4_Witness ==
  /\ pc = "done"
  /\ Len(calls) = 3
  /\ Get(SourceChannels(1), "ch1", None) = "B Name"
  /\ Get(SourceChannels(2), "ch1", None) = "A Name"
  /\ Get(SourceChannels(3), "ch1", None) = "B Name"
  /\ Get(all_channels, "ch1", None) = "B Name"
  /\ Get(all_channels, "ch2", None) = "Two"

\* The programmes the first n calls returned for id k, one list after another.
RECURSIVE Concatenated(_, _)
Concatenated(k, n) ==
  IF n = 0 THEN <<>>
  ELSE Concatenated(k, n - 1) \o Get(SourceProgrammes(n), k, <<>>)

\* C5 as claimed: after the fold, the list of every id is the concatenation,
\* in source order, of the lists the parser returned for it; nothing the
\* parser returned is dropped.
C5_ProgrammeUnionComplete ==
  AfterFold =>
    \A k \in DOMAIN all_programmes
             \cup UNION {DOMAIN SourceProgrammes(c) : c \in 1..Len(calls)} :
      Get(all_programmes, k, <<>>) = Concatenated(k, Len(calls))

\* Is entry a of the list of id k before entry b in source order, then in
\* document order?
InOrder(k, a, b) ==
  \/ origin[k][a] < origin[k][b]
  \/ /\ origin[k][a] = origin[k][b]
     /\ elems[all_programmes[k][a]].pos < elems[all_programmes[k][b]].pos

\* C6: in every state, the programmes of every id are in source order, and
\* those of one source in document order; and every step leaves each list as
\* a prefix of what it becomes (it appends, and does not reorder or replace).
C6_ProgrammeOrderKept ==
  /\ [](\A k \in DOMAIN all_programmes :
          /\ Len(origin[k]) = Len(all_programmes[k])
          /\ \A a, b \in 1..Len(all_programmes[k]) : a < b => InOrder(k, a, b))
  /\ [][\A k \in DOMAIN all_programmes :
          /\ k \in DOMAIN all_programmes'
          /\ Len(all_programmes'[k]) >= Len(all_programmes[k])
          /\ SubSeq(all_programmes'[k], 1, Len(all_programmes[k])) = all_programmes[k]
       ]_vars

\* C6 witness: ch1 has one programme of the first source, then two of the
\* second in their document order, while the fold still has a source to go.
C6_Witness ==
  /\ pc = "parsing"
  /\ idx = 3
  /\ Len(epg_contents) = 3
  /\ "ch1" \in DOMAIN all_programmes
  /\ origin["ch1"] = <<1, 2, 2>>
  /\ elems[all_programmes["ch1"][2]].title = "Noon"
  /\ elems[all_programmes["ch1"][3]].title = "Night"

\* The programme maps there are: those of the result objects (the cache's
\* entries among them) and the aggregate.
ProgrammeMaps == {objs[o].programmes : o \in 1..Len(objs)} \cup {all_programmes}
ChannelMaps == {objs[o].channels : o \in 1..Len(objs)} \cup {all_channels}

\* C7: every programme in a list under key k has channel attribute k, in every
\* parser result, cache entry and the aggregate.
C7_KeyIsChannel ==
  /\ \A o \in DOMAIN epg_cache : epg_cache[o] \in 1..Len(objs)
  /\ \A m \in ProgrammeMaps : \A k \in DOMAIN m : \A j \in 1..Len(m[k]) :
       elems[m[k][j]].channel = k

\* C7 witness: a programme whose channel attribute was in traditional script
\* is in the aggregate under the normalised id, after write_to_xml has set
\* the attribute again.
C7_Witness ==
  /\ pc = "done"
  /\ \E c \in 1..Len(calls) : calls[c].content = DocTrad
  /\ "ch1" \in DOMAIN all_programmes
  /\ \E j \in 1..Len(all_programmes["ch1"]) :
       /\ elems[all_programmes["ch1"][j]].desc = "Desc"
       /\ elems[all_programmes["ch1"][j]].title = "Morning"
       /\ elems[all_programmes["ch1"][j]].channel = "ch1"

\* C8: no key of any channel map or programme map (parser results, cache
\* entries, aggregate) is None or the empty string.
C8_NoEmptyChannelId ==
  /\ \A m \in ChannelMaps : None \notin DOMAIN m /\ "" \notin DOMAIN m
  /\ \A m \in ProgrammeMaps : None \notin DOMAIN m /\ "" \notin DOMAIN m

\* C8 witness: a document with a channel without id, a channel and a
\* programme with empty id, has been parsed and folded in; only ch2 came of it.
C8_Witness ==
  /\ AfterFold
  /\ Len(calls) = 1
  /\ calls[1].content = DocSloppy
  /\ DOMAIN all_channels = {"ch2"}
  /\ DOMAIN all_programmes = {"ch2"}
  /\ DOMAIN epg_cache = {get_content_hash(DocSloppy)}

\* The references to the programme elements in the result of the c-th call,
\* and the places in the document of the children they were built for.
OutputRefs(c) ==
  UNION {{SourceProgrammes(c)[k][j] : j \in 1..Len(SourceProgrammes(c)[k])} :
           k \in DOMAIN SourceProgrammes(c)}
OutputPlaces(c) == {elems[r].pos : r \in OutputRefs(c)}

\* The input format's timestamp grammar: fourteen digits, a sign, four digits.
GrammarShape(s) ==
  /\ Len(s) = 19
  /\ \A i \in 1..14 : IsDigit(s[i])
  /\ s[15] \in {"+", "-"}
  /\ \A i \in 16..19 : IsDigit(s[i])

\* An attribute that is there and, whitespace removed, is of the grammar and
\* names a time that exists.
UnderGrammar(a) ==
  a.has /\ GrammarShape(strip_ws(a.val)) /\ strptime(strip_ws(a.val)).ok

\* The programme elements the claim admits.
ClaimAdmits(e) ==
  /\ e.id # None /\ e.id # ""
  /\ UnderGrammar(e.start)
  /\ UnderGrammar(e.stop)
  /\ e.text # NoElem /\ e.text # None /\ e.text # ""

\* C9 as claimed: the result for a well-formed document has, in document
\* order, exactly the programme elements with a non-empty channel, start and
\* stop of the timestamp grammar, and a title; the others are not in it, and
\* the channels are those of the channel elements with an id.
C9_AdmittedExactlyUnderGrammar ==
  \A c \in 1..Len(calls) :
    calls[c].content.kind = "xml" =>
      /\ \A n \in 1..Len(calls[c].content.elems) :
           calls[c].content.elems[n].tag = "programme" =>
             (n \in OutputPlaces(c) <=> ClaimAdmits(calls[c].content.elems[n]))
      /\ \A k \in DOMAIN SourceProgrammes(c) :
           \A a, b \in 1..Len(SourceProgrammes(c)[k]) :
             a < b => elems[SourceProgrammes(c)[k][a]].pos
                        < elems[SourceProgrammes(c)[k][b]].pos
      /\ DOMAIN SourceChannels(c) =
           {transform2_zh_hans(calls[c].content.elems[n].id) :
              n \in {m \in 1..Len(calls[c].content.elems) :
                       /\ calls[c].content.elems[m].tag = "channel"
                       /\ calls[c].content.elems[m].id # None
                       /\ calls[c].content.elems[m].id # ""}}

\* Is out the timestamp the claim has the parser write for the attribute a?
\* The digits of a as they are, when a is of the grammar, and ' +0800'.
FixedOffset(out, a) ==
  /\ Len(out) = 20
  /\ \A i \in 1..14 : IsDigit(out[i])
  /\ SubSeq(out, 15, 20) = OutSuffix
  /\ GrammarShape(strip_ws(a.val)) =>
       SubSeq(out, 1, 14) = SubSeq(strip_ws(a.val), 1, 14)

\* C10 as claimed: start and stop of every programme in a result are fourteen digits and
\* ' +0800'; for a source timestamp of the grammar, whatever its offset, the
\* digits are those of the source, not moved by the offset.
C10_OutputOffsetFixed ==
  \A c \in 1..Len(calls) : \A r \in OutputRefs(c) :
    /\ FixedOffset(elems[r].start, calls[c].content.elems[elems[r].pos].start)
    /\ FixedOffset(elems[r].stop, calls[c].content.elems[elems[r].pos].stop)

\* C11: a call of parse_epg on an absent text, on a whitespace-only text or on
\* a text that is not well-formed returns: no exception leaves it, and what it
\* returns is an empty channel map and an empty programme map; it stores
\* nothing in the cache.
C11_ParserTotalOnBadInput ==
  \A c \in 1..Len(calls) :
    calls[c].content.kind \in {"none", "blank", "malformed"} =>
      /\ ~calls[c].raised
      /\ SourceChannels(c) = EmptyMap
      /\ SourceProgrammes(c) = EmptyMap
      /\ get_content_hash(calls[c].content) \notin DOMAIN epg_cache

\* C11 witness: parse_epg has been called on a text that is not well-formed,
\* with the cache and without it, and returned twice.
C11_Witness ==
  /\ pdoc = MalformedDoc
  /\ Len(calls) = 2
  /\ calls[1].use_cache /\ ~calls[2].use_cache
  /\ calls[1].executed /\ calls[2].executed
  /\ ~calls[1].raised /\ ~calls[2].raised

\* C12: a fold that ends with no channel in all_channels ends the run there:
\* main returns (no step follows, no exception), no output file has been
\* written and nothing of the aggregate or of the elements has been touched;
\* write_to_xml and compress_to_gz are reached only with a channel in
\* all_channels.
C12_EmptyResultExit ==
  /\ (AfterFold /\ DOMAIN all_channels = {}) =>
       /\ pc = "exit_empty"
       /\ ~ENABLED Next
       /\ ~output.xml /\ ~output.gz
       /\ DOMAIN all_programmes = {}
  /\ pc \in {"writing", "compressing", "done", "failed"} => DOMAIN all_channels # {}

\* C12 witness: three sources, one failed, one blank and one whose document
\* has a programme and no channel; the run has ended with nothing written.
C12_Witness ==
  /\ pc = "exit_empty"
  /\ Len(urls) = 3
  /\ task[1].outcome.kind = "timeout"
  /\ epg_contents[2] = BlankDoc
  /\ epg_contents[3] = DocNoChannels
  /\ Len(calls) = 2
  /\ ~output.xml /\ ~output.gz

\* The requests in flight.
InFlight == {i \in 1..Len(task) : task[i].st = "inflight"}

\* C13 as claimed: at no time are more than 16 requests in flight, however
\* many locators there are.
C13_AtMostSixteenInFlight == Cardinality(InFlight) <= ConnectorLimit

\* C14 as claimed: the run does not get to report completion ("done") unless
\* the directory was made, the document written and the compressed file
\* written; a failure of any of the three ends the run as failed.
C14_OutputFailureTerminal ==
  /\ pc \in {"compressing", "done"} => output.xml
  /\ pc = "done" => output.gz

\* C15: once the fold has ended, no step changes all_channels, all_programmes
\* (its keys, its lists and their order), or any attribute or child of a
\* programme element all_programmes refers to.
C15_AggregateFrozenAfterFold ==
  [][AfterFold =>
       /\ all_channels' = all_channels
       /\ all_programmes' = all_programmes
       /\ \A k \in DOMAIN all_programmes : \A j \in 1..Len(all_programmes[k]) :
            elems'[all_programmes[k][j]] = elems[all_programmes[k][j]]]_vars

\* C15 witness: the document has been written and compressed for the sources
\* A, B, A; the list of ch1 has A's programme twice, as one element.
C15_Witness ==
  /\ pc = "done"
  /\ output.xml
  /\ Len(urls) = 3
  /\ epg_contents = <<DocA, DocB, DocA>>
  /\ Len(all_programmes["ch1"]) = 4
  /\ all_programmes["ch1"][1] = all_programmes["ch1"][4]
  /\ elems[all_programmes["ch1"][1]].channel = "ch1"

\* C16: a step never takes a fingerprint out of epg_cache and never changes
\* what is stored under one: the entry stays the same object, with the same
\* channels and programme lists.
C16_CacheMonotone ==
  [][\A f \in DOMAIN epg_cache :
       /\ f \in DOMAIN epg_cache'
       /\ epg_cache'[f] = epg_cache[f]
       /\ objs'[epg_cache[f]] = objs[epg_cache[f]]]_vars

\* C16 witness: document A was parsed and stored, parsed again without the
\* cache into another object, and then found in the cache: the first object.
C16_Witness ==
  /\ Len(calls) = 3
  /\ \A c \in 1..3 : calls[c].content = DocA
  /\ calls[1].use_cache /\ ~calls[2].use_cache /\ calls[3].use_cache
  /\ calls[2].executed /\ ~calls[3].executed
  /\ calls[2].ret # calls[1].ret
  /\ calls[3].ret = calls[1].ret
  /\ epg_cache[get_content_hash(DocA)] = calls[1].ret

\* C17: the stages follow one another and parse_epg runs one call at a time.
\* A step that calls parse_epg, or changes the cache or the aggregate maps, is
\* a turn of the parse loop: every fetch coroutine has finished by then, the
\* step makes at most one call, for the source the loop is at, and goes on to
\* the next source; so the calls are in source list order, and no step of the
\* fetch stage follows one.
C17_StagesInOrderOneParseAtATime ==
  /\ [](/\ \A a, b \in 1..Len(calls) : a < b => calls[a].src < calls[b].src
        /\ (calls # <<>> \/ DOMAIN all_channels # {} \/ DOMAIN epg_cache # {}) =>
             /\ AfterGather
             /\ \A i \in 1..Len(task) : task[i].st = "done"
        /\ pc = "parsing" => \A i \in 1..Len(task) : task[i].st = "done")
  /\ [][(calls' # calls \/ epg_cache' # epg_cache \/ objs' # objs
           \/ <<all_channels, all_programmes, successful_parses>>'
                # <<all_channels, all_programmes, successful_parses>>) =>
          /\ pc = "parsing" /\ pc' = "parsing"
          /\ \A i \in 1..Len(task) : task[i].st = "done"
          /\ task' = task
          /\ idx' = idx + 1
          /\ Len(calls') = Len(calls) + 1
          /\ calls'[Len(calls')].src = idx]_vars

\* C17 witness: the third request completed before the second, the first
\* failed; the texts were parsed in list order all the same, 2 then 3.
C17_Witness ==
  /\ pc = "parsing"
  /\ overtaken
  /\ idx = 4
  /\ task[1].outcome.kind = "other"
  /\ Len(calls) = 2
  /\ calls[1].src = 2 /\ calls[2].src = 3
  /\ calls[1].content = DocB /\ calls[2].content = DocA

\* The programme elements the programme loop builds for the children els, as
\* records, by key.
ElementsBuilt(pp) ==
  [k \in DOMAIN pp.progs |-> [j \in 1..Len(pp.progs[k]) |-> pp.new[pp.progs[k][j]]]]

\* The aggregate after one more well-formed document with these channels and
\* programme elements.
FoldStep(prev, channels, built) ==
  IF DOMAIN channels = {} THEN prev
  ELSE [channels |-> MergeChannels(prev.channels, channels),
        programmes |-> MergeProgrammes(prev.programmes, built)]

\* The aggregate of a run whose sources serve the first n of the well-formed
\* documents docs, and nothing else.
RECURSIVE FoldOver(_, _)
FoldOver(docs, n) ==
  IF n = 0 THEN EmptyResult
  ELSE FoldStep(FoldOver(docs, n - 1),
                ParseChannels(docs[n].elems, Len(docs[n].elems)),
                ElementsBuilt(ParseProgrammes(docs[n].elems, Len(docs[n].elems), 0)))

\* The source list without the sources that are absent, blank or malformed.
WithoutBadSources == SelectSeq(epg_contents, LAMBDA d : d.kind = "xml")

\* The programme elements of the aggregate, as records.
AggregateElements ==
  [k \in DOMAIN all_programmes |->
     [j \in 1..Len(all_programmes[k]) |-> elems[all_programmes[k][j]]]]

\* Does the aggregate equal the expected one?
SameAggregate(expected) ==
  /\ all_channels = expected.channels
  /\ AggregateElements = expected.programmes

\* C18: when the fold has ended, it has gone over every source, has called
\* parse_epg for every source that delivered a text, and the aggregate is the
\* one of the same list without the sources that failed, were blank or were
\* malformed, wherever in the list they are.
C18_BadSourcesContributeNothing ==
  pc \in {"exit_empty", "writing"} =>
    /\ idx = Len(epg_contents) + 1
    /\ Len(calls) = Cardinality({i \in 1..Len(epg_contents) : epg_contents[i].kind # "none"})
    /\ SameAggregate(FoldOver(WithoutBadSources, Len(WithoutBadSources)))

\* C18 witness: the first source failed, the second delivered a malformed text
\* and the third document A; the aggregate is that of A alone.
C18_Witness ==
  /\ pc = "writing"
  /\ Len(urls) = 3
  /\ task[1].outcome.kind = "client_error"
  /\ epg_contents[2] = MalformedDoc
  /\ epg_contents[3] = DocA
  /\ all_channels = ParseChannels(DocA.elems, Len(DocA.elems))
  /\ Len(all_programmes["ch1"]) = 1

\* The ways a run ends: no locators, no channels, output completed, failure.
Terminal == pc \in {"exit_no_urls", "exit_empty", "done", "failed"}

\* C19: every run, in which each request in flight ends, gets to one of the
\* four ends, and has no step after it: it stays in that one.
C19_RunToCompletion ==
  /\ <>Terminal
  /\ [](Terminal => ~ENABLED Next)

\* C19 witness: a run over two locators, one request timed out and the other
\* delivered document A, has completed its output.
C19_Witness ==
  /\ pc = "done"
  /\ Len(urls) = 2
  /\ task[1].outcome.kind = "timeout"
  /\ task[2].outcome = [kind |-> "ok", doc |-> DocA]
  /\ output.xml

\* The programme elements of result object o, as records.
ElementsOf(o) ==
  [k \in DOMAIN objs[o].programmes |->
     [j \in 1..Len(objs[o].programmes[k]) |-> elems[objs[o].programmes[k][j]]]]

\* Is object o, as it is now, what the parser makes of the well-formed
\* document d?
IsParseOf(o, d) ==
  /\ objs[o].channels = ParseChannels(d.elems, Len(d.elems))
  /\ ElementsOf(o) = ElementsBuilt(ParseProgrammes(d.elems, Len(d.elems), 0))

\* The objects the cache holds.
Cached == {epg_cache[f] : f \in DOMAIN epg_cache}

\* C20: in every state, also after any number of folds and after the output
\* was written, an entry of the cache is under the fingerprint of a
\* well-formed document, is the object the first call with the cache for that
\* document returned, and has the channels, the lists and the elements the
\* parser makes of that document; a call with the cache for a well-formed
\* document returns the entry; a call for a blank or malformed text or
\* without the cache makes no entry and returns an object that is not in the
\* cache.
C20_CacheCoherent ==
  /\ \A f \in DOMAIN epg_cache :
       /\ f[2].kind = "xml"
       /\ IsParseOf(epg_cache[f], f[2])
       /\ \E c \in 1..Len(calls) :
            /\ calls[c].content = f[2] /\ calls[c].use_cache /\ calls[c].executed
            /\ calls[c].ret = epg_cache[f]
  /\ \A c \in 1..Len(calls) :
       IF calls[c].use_cache /\ calls[c].content.kind = "xml"
       THEN /\ get_content_hash(calls[c].content) \in DOMAIN epg_cache
            /\ calls[c].ret = epg_cache[get_content_hash(calls[c].content)]
       ELSE /\ calls[c].ret \notin Cached
            /\ calls[c].use_cache => get_content_hash(calls[c].content) \notin DOMAIN epg_cache

\* C20 witness: the sources delivered A, A and B; A was parsed once and its
\* cached result folded in twice, then the output was written: the list of ch1
\* in the aggregate has four entries, the cached list of A still its one.
C20_Witness ==
  /\ pc = "done"
  /\ epg_contents = <<DocA, DocA, DocB>>
  /\ calls[1].executed /\ ~calls[2].executed
  /\ calls[2].ret = calls[1].ret
  /\ DOMAIN epg_cache = {get_content_hash(DocA), get_content_hash(DocB)}
  /\ Len(all_programmes["ch1"]) = 4
  /\ Len(objs[epg_cache[get_content_hash(DocA)]].programmes["ch1"]) = 1

====
